---- MODULE Spec2Model ----
(***************************************************************************)
(* Model of src/index.tsx: the NeoOtto chat page.  Strings are sequences   *)
(* of one-character strings, so that the regular expressions, trim and     *)
(* split of the source are computed character by character.                *)
(***************************************************************************)
EXTENDS Integers, Sequences, FiniteSets, TLC

VARIABLES
  apiKey,             \* process.env.API_KEY: "" when not configured
  started,            \* the module's last statement, initializeApp(), has run
  chat,               \* the Chat handle, or NULL
  chatInputDisabled,  \* chatInput.disabled
  sendButtonDisabled, \* sendButton.disabled
  chatContainer,      \* the children of #chat-container, in document order
  calls,              \* the suspended calls of sendMessageAndStreamResponse
  lastCall,           \* the locals of the call that returned most recently
  nextId,             \* identity of the next element created
  sends,              \* number of chat.sendMessageStream calls issued
  deltas              \* number of chunks the provider has delivered

vars == <<apiKey, started, chat, chatInputDisabled, sendButtonDisabled,
          chatContainer, calls, lastCall, nextId, sends, deltas>>

\* ------------------------------------------------------------------ bounds
MaxSends == 2
MaxDeltas == 4
MaxLines == 4

\* ------------------------------------------------------------------ text
NULL == "null"
Quote == "\""
Newline == "\n"
StartMarker == <<"[", "S", "U", "G", "G", "E", "S", "T", "I", "O", "N", "S", "]">>
EndMarker == <<"[", "/", "S", "U", "G", "G", "E", "S", "T", "I", "O", "N", "S", "]">>
WhiteSpace == {" ", Newline}

Min(S) == CHOOSE x \in S : \A y \in S : x <= y
Max(S) == CHOOSE x \in S : \A y \in S : x >= y

\* m occurs in s at position i
IsAt(s, i, m) ==
  /\ i >= 1
  /\ i + Len(m) - 1 <= Len(s)
  /\ \A k \in 1..Len(m) : s[i + k - 1] = m[k]

\* String.prototype.indexOf counted from 1; 0 when m does not occur at or after from
IndexOf(s, m, from) ==
  LET hits == {i \in from..(Len(s) - Len(m) + 1) : IsAt(s, i, m)}
  IN IF hits = {} THEN 0 ELSE Min(hits)

\* String.prototype.trim
Trim(s) ==
  LET keep == {i \in 1..Len(s) : s[i] \notin WhiteSpace}
  IN IF keep = {} THEN <<>> ELSE SubSeq(s, Min(keep), Max(keep))

\* String.prototype.split('\n')
RECURSIVE Split(_)
Split(s) ==
  LET i == IndexOf(s, <<Newline>>, 1)
  IN IF i = 0 THEN <<s>>
     ELSE <<SubSeq(s, 1, i - 1)>> \o Split(SubSeq(s, i + 1, Len(s)))

NoMatch == [found |-> FALSE, index |-> 0, group |-> <<>>, last |-> 0]

\* leftmost match of  \[SUGGESTIONS\]([\s\S]*?)\[\/SUGGESTIONS\]  in s
LazySpan(s) ==
  LET i == IndexOf(s, StartMarker, 1)
      j == IF i = 0 THEN 0 ELSE IndexOf(s, EndMarker, i + Len(StartMarker))
  IN IF j = 0 THEN NoMatch
     ELSE [found |-> TRUE, index |-> i,
           group |-> SubSeq(s, i + Len(StartMarker), j - 1),
           last |-> j + Len(EndMarker) - 1]

\* a start marker alone matches, up to the end of the text
OpenEndedSpan(s) ==
  LET i == IndexOf(s, StartMarker, 1)
      j == IF i = 0 THEN 0 ELSE IndexOf(s, EndMarker, i + Len(StartMarker))
  IN IF i = 0 THEN NoMatch
     ELSE IF j = 0
          THEN [found |-> TRUE, index |-> i,
                group |-> SubSeq(s, i + Len(StartMarker), Len(s)), last |-> Len(s)]
          ELSE [found |-> TRUE, index |-> i,
                group |-> SubSeq(s, i + Len(StartMarker), j - 1),
                last |-> j + Len(EndMarker) - 1]

\* fullResponse.match(suggestionsRegex)
SuggestionsMatch(fullResponse) == LazySpan(fullResponse)

\* the span the stream loop's regular expression matches
BlockMatch(s) == LazySpan(s)

\* replace without the g flag: only the first closed span is removed
StripFirstBlock(s) ==
  LET m == BlockMatch(s)
  IN IF ~m.found THEN s
     ELSE SubSeq(s, 1, m.index - 1) \o SubSeq(s, m.last + 1, Len(s))

\* an unclosed start marker hides the rest of the text
RECURSIVE StripOpenBlocks(_)
StripOpenBlocks(s) ==
  LET m == OpenEndedSpan(s)
  IN IF ~m.found THEN s
     ELSE SubSeq(s, 1, m.index - 1) \o StripOpenBlocks(SubSeq(s, m.last + 1, Len(s)))

\* bufferedText.replace(/\[SUGGESTIONS\][\s\S]*?\[\/SUGGESTIONS\]/g, '')
RECURSIVE StripBlocks(_)
StripBlocks(s) ==
  LET m == BlockMatch(s)
  IN IF ~m.found THEN s
     ELSE SubSeq(s, 1, m.index - 1) \o StripBlocks(SubSeq(s, m.last + 1, Len(s)))

\* the displayText of the stream loop
DisplayText(bufferedText) == Trim(StripBlocks(bufferedText))

\* s.trim().match(/"(.*?)"/): a line holds no line terminator, so the match
\* is the first quote and the next quote after it
QuotedMatch(line) ==
  LET t == Trim(line)
      q1 == IndexOf(t, <<Quote>>, 1)
      q2 == IF q1 = 0 THEN 0 ELSE IndexOf(t, <<Quote>>, q1 + 1)
  IN IF q2 = 0 THEN NoMatch
     ELSE [found |-> TRUE, index |-> q1, group |-> SubSeq(t, q1 + 1, q2 - 1), last |-> q2]

IsFound(m) == m.found

\* .map(s => s.trim().match(...)).filter(Boolean).map(match => match[1])
QuotedLines(lines) ==
  LET matches == [k \in 1..Len(lines) |-> QuotedMatch(lines[k])]
      kept == SelectSeq(matches, IsFound)
  IN [k \in 1..Len(kept) |-> kept[k].group]

RECURSIVE Dedupe(_)
Dedupe(q) ==
  IF q = <<>> THEN <<>>
  ELSE LET r == Dedupe(SubSeq(q, 1, Len(q) - 1))
           x == q[Len(q)]
       IN IF \E k \in 1..Len(r) : r[k] = x THEN r ELSE Append(r, x)

\* the suggestions, with repeated ones dropped
SuggestionsDeduped(fullResponse) ==
  LET match == SuggestionsMatch(fullResponse)
  IN IF ~match.found \/ match.group = <<>> THEN <<>>
     ELSE Dedupe(QuotedLines(Split(Trim(match.group))))

\* the suggestions array of processAndDisplaySuggestions (empty on the early returns)
Suggestions(fullResponse) ==
  LET match == SuggestionsMatch(fullResponse)
  IN IF ~match.found \/ match.group = <<>> THEN <<>>
     ELSE QuotedLines(Split(Trim(match.group)))

\* ------------------------------------------------------------------ DOM
NoError == [isError |-> FALSE, message |-> ""]

Element(id, cls, kind, text, code, chips) ==
  [id |-> id, cls |-> cls, kind |-> kind, text |-> text, code |-> code,
   chips |-> chips, pointerEvents |-> "auto"]

\* appendMessage(sender): a new bubble with empty content, last in the container
AppendMessage(container, sender, id) ==
  Append(container, Element(id, sender, "empty", <<>>, "", <<>>))

\* assignment to the textContent or innerHTML of the bubble with identity id
SetContent(container, id, kind, text, code) ==
  [k \in 1..Len(container) |->
     IF container[k].id = id
     THEN [container[k] EXCEPT !.kind = kind, !.text = text, !.code = code]
     ELSE container[k]]

Containers(container) ==
  {k \in 1..Len(container) : container[k].cls = "suggestions-container"}

\* the removal is left out
KeepExistingSuggestions(container) == container

\* document.querySelector('.suggestions-container') and its remove(): the first one
RemoveExistingSuggestions(container) ==
  LET found == Containers(container)
  IN IF found = {} THEN container
     ELSE LET k == Min(found)
          IN SubSeq(container, 1, k - 1) \o SubSeq(container, k + 1, Len(container))

\* the controls stay disabled whatever the argument
SetLoadingStuck(isLoading) == [chatInput |-> TRUE, sendButton |-> TRUE]

\* the controls are never disabled
SetLoadingNever(isLoading) == [chatInput |-> FALSE, sendButton |-> FALSE]

\* setLoading(isLoading): the disabled flags it assigns
SetLoading(isLoading) == [chatInput |-> isLoading, sendButton |-> isLoading]

\* processAndDisplaySuggestions(fullResponse): the container after the call
ProcessAndDisplaySuggestions(container, fullResponse, id) ==
  LET suggestions == Suggestions(fullResponse)
  IN IF Len(suggestions) = 0 THEN container
     ELSE Append(container,
                 Element(id, "suggestions-container", "chips", <<>>, "", suggestions))

\* error instanceof Error ? error.message : "An unknown error occurred."
ErrorMessage(error) ==
  IF error.isError THEN error.message ELSE "An unknown error occurred."

\* the error is logged and the bubble keeps what was streamed into it
CatchLogOnly(container, el, error) == container

\* the catch block of sendMessageAndStreamResponse
CatchBlock(container, el, error) ==
  SetContent(container, el, "retry", <<>>, ErrorMessage(error))

\* the catch block without the two assignments to disabled
InitCatchEnabled(container, id) ==
  [chatContainer |-> SetContent(AppendMessage(container, "bot-message", id), id,
                                "config-error", <<>>, ""),
   chatInput |-> FALSE, sendButton |-> FALSE]

\* the catch block of initializeApp
InitCatch(container, id) ==
  [chatContainer |-> SetContent(AppendMessage(container, "bot-message", id), id,
                                "config-error", <<>>, ""),
   chatInput |-> TRUE, sendButton |-> TRUE]

\* displayInitialGreeting()
DisplayInitialGreeting(container, id) ==
  SetContent(AppendMessage(container, "bot-message", id), id, "greeting", <<>>, "")

\* ------------------------------------------------------------------ inputs
\* what the user may have typed when the form is submitted
InputTexts == {<<>>, <<" ">>, <<" ", "q", " ">>}

\* the values process.env.API_KEY can have
ApiKeys == {"", "key"}

\* what the provider may throw or reject with
Thrown == {[isError |-> TRUE, message |-> "fetch failed"], NoError}

\* the chunks a stream is made of
DeltaSet ==
  { <<"x", Newline>>,
    StartMarker,
    EndMarker,
    <<Quote, "a", Quote, Newline>> }

\* ------------------------------------------------------------------ state
NoCall == [el |-> 0, outcome |-> "none", bufferedText |-> <<>>, chunks |-> 0,
           error |-> NoError]

Init ==
  /\ apiKey \in ApiKeys
  /\ started = FALSE
  /\ chat = NULL
  /\ chatInputDisabled = FALSE
  /\ sendButtonDisabled = FALSE
  /\ chatContainer = <<>>
  /\ calls = {}
  /\ lastCall = NoCall
  /\ nextId = 1
  /\ sends = 0
  /\ deltas = 0

\* initializeApp(), the last statement of the module; creating the session may throw
InitializeApp(createThrows) ==
  /\ ~started
  /\ started' = TRUE
  /\ IF apiKey = "" \/ createThrows
     THEN LET r == InitCatch(chatContainer, nextId)
          IN /\ chat' = chat
             /\ chatContainer' = r.chatContainer
             /\ chatInputDisabled' = r.chatInput
             /\ sendButtonDisabled' = r.sendButton
     ELSE /\ chat' = "Chat"
          /\ chatContainer' = DisplayInitialGreeting(chatContainer, nextId)
          /\ UNCHANGED <<chatInputDisabled, sendButtonDisabled>>
  /\ nextId' = nextId + 1
  /\ UNCHANGED <<apiKey, calls, lastCall, sends, deltas>>

\* sendMessageAndStreamResponse(userMessage) up to its first await; container is
\* the container as the caller left it
SendMessageAndStreamResponse(userMessage, container) ==
  IF userMessage = <<>> \/ chat = NULL
  THEN /\ chatContainer' = container
       /\ UNCHANGED <<apiKey, started, chat, chatInputDisabled, sendButtonDisabled,
                      calls, lastCall, nextId, sends, deltas>>
  ELSE LET withUser == SetContent(AppendMessage(container, "user-message", nextId),
                                  nextId, "text", userMessage, "")
           loading == SetLoading(TRUE)
           withBot == AppendMessage(withUser, "bot-message", nextId + 1)
       IN /\ chatContainer' = RemoveExistingSuggestions(withBot)
          /\ chatInputDisabled' = loading.chatInput
          /\ sendButtonDisabled' = loading.sendButton
          /\ calls' = calls \cup {[el |-> nextId + 1, stage |-> "awaitStream",
                                   bufferedText |-> <<>>, chunks |-> 0]}
          /\ nextId' = nextId + 2
          /\ sends' = sends + 1
          /\ UNCHANGED <<apiKey, started, chat, lastCall, deltas>>

\* the submit event of the form: the Enter key in the enabled textarea, or a click
\* on the enabled send button
HandleFormSubmit(value) ==
  /\ started
  /\ ~chatInputDisabled \/ ~sendButtonDisabled
  /\ sends < MaxSends
  /\ LET userMessage == Trim(value)
     IN IF userMessage = <<>> THEN UNCHANGED vars
        ELSE SendMessageAndStreamResponse(userMessage, chatContainer)

\* button.onclick of chip n of the container at position k; a chip of a container
\* with pointer-events none can still be activated from the keyboard
ClickChip(k, n) ==
  /\ k \in Containers(chatContainer)
  /\ n \in 1..Len(chatContainer[k].chips)
  /\ sends < MaxSends
  /\ SendMessageAndStreamResponse(
       chatContainer[k].chips[n],
       [chatContainer EXCEPT ![k].pointerEvents = "none"])

\* the finally block, and the return of the call
Finish(c, outcome, error) ==
  LET loading == SetLoading(FALSE)
  IN /\ chatInputDisabled' = loading.chatInput
     /\ sendButtonDisabled' = loading.sendButton
     /\ calls' = calls \ {c}
     /\ lastCall' = [el |-> c.el, outcome |-> outcome, bufferedText |-> c.bufferedText,
                     chunks |-> c.chunks, error |-> error]

\* await chat.sendMessageStream(...) resolves
StreamEstablished(c) ==
  /\ c.stage = "awaitStream"
  /\ calls' = (calls \ {c}) \cup {[c EXCEPT !.stage = "streaming"]}
  /\ UNCHANGED <<apiKey, started, chat, chatInputDisabled, sendButtonDisabled,
                 chatContainer, lastCall, nextId, sends, deltas>>

\* chat.sendMessageStream(...) throws or rejects
SendFails(c, error) ==
  /\ c.stage = "awaitStream"
  /\ chatContainer' = CatchBlock(chatContainer, c.el, error)
  /\ Finish(c, "error", error)
  /\ UNCHANGED <<apiKey, started, chat, nextId, sends, deltas>>

\* one iteration of the for await loop
StreamDelta(c, chunk) ==
  /\ c.stage = "streaming"
  /\ deltas < MaxDeltas
  /\ LET bufferedText == c.bufferedText \o chunk
     IN /\ chatContainer' = SetContent(chatContainer, c.el, "markdown",
                                       DisplayText(bufferedText), "")
        /\ calls' = (calls \ {c}) \cup
                    {[c EXCEPT !.bufferedText = bufferedText, !.chunks = c.chunks + 1]}
  /\ deltas' = deltas + 1
  /\ UNCHANGED <<apiKey, started, chat, chatInputDisabled, sendButtonDisabled,
                 lastCall, nextId, sends>>

\* the stream ends: processAndDisplaySuggestions(bufferedText), then finally
StreamEnds(c) ==
  /\ c.stage = "streaming"
  /\ chatContainer' = ProcessAndDisplaySuggestions(chatContainer, c.bufferedText, nextId)
  /\ nextId' = nextId + 1
  /\ Finish(c, "ok", NoError)
  /\ UNCHANGED <<apiKey, started, chat, sends, deltas>>

\* the stream throws: catch, then finally
StreamFails(c, error) ==
  /\ c.stage = "streaming"
  /\ chatContainer' = CatchBlock(chatContainer, c.el, error)
  /\ Finish(c, "error", error)
  /\ UNCHANGED <<apiKey, started, chat, nextId, sends, deltas>>

\* a step of the provider: the provider's disjuncts of Next
RemoteStep ==
  \E c \in calls :
    \/ StreamEstablished(c)
    \/ \E error \in Thrown : SendFails(c, error)
    \/ \E error \in Thrown : StreamFails(c, error)
    \/ StreamEnds(c)
    \/ \E chunk \in DeltaSet : StreamDelta(c, chunk)

Next ==
  \/ \E createThrows \in BOOLEAN : InitializeApp(createThrows)
  \/ \E value \in InputTexts : HandleFormSubmit(value)
  \/ \E k \in Containers(chatContainer) :
       \E n \in 1..Len(chatContainer[k].chips) : ClickChip(k, n)
  \/ \E c \in calls : StreamEstablished(c)
  \/ \E c \in calls, error \in Thrown : SendFails(c, error)
  \/ \E c \in calls, chunk \in DeltaSet : StreamDelta(c, chunk)
  \/ \E c \in calls : StreamEnds(c)
  \/ \E c \in calls, error \in Thrown : StreamFails(c, error)

Spec == Init /\ [][Next]_vars

\* the provider eventually answers, ends or fails every stream
FairSpec == Spec /\ WF_vars(RemoteStep)

\* ------------------------------------------------------------------ whole replies
\* the lines a suggestion block is written with: the text of the line and the
\* string between its first pair of quotes
BlockLines ==
  { [text |-> <<Quote, "a", Quote>>, content |-> <<"a">>],
    [text |-> <<" ", "-", " ", Quote, "b", " ", "c", Quote, ",", " ">>,
     content |-> <<"b", " ", "c">>],
    [text |-> <<Quote, Quote>>, content |-> <<>>] }

LineSeqs(lo, hi) == UNION {[1..n -> BlockLines] : n \in lo..hi}

Contents(ls) == [k \in 1..Len(ls) |-> ls[k].content]

RECURSIVE LinesText(_)
LinesText(ls) ==
  IF ls = <<>> THEN <<>>
  ELSE Head(ls).text \o <<Newline>> \o LinesText(Tail(ls))

\* the start marker, one line per suggestion, the end marker
Block(ls) == StartMarker \o <<Newline>> \o LinesText(ls) \o EndMarker

\* text without markers around and between blocks
Before == {<<>>, <<"O", "l", "a", "!", Newline>>}
Between == {<<Newline>>, <<Newline, "x", Newline>>}
After == {<<>>, <<Newline, "Q", "C">>}

Reply(pre, ls, post) == pre \o Block(ls) \o post
Reply2(pre, ls1, mid, ls2, post) == pre \o Block(ls1) \o mid \o Block(ls2) \o post

OneBlockReplies ==
  {Reply(pre, ls, post) : pre \in Before, ls \in LineSeqs(0, MaxLines), post \in After}

TwoBlockReplies ==
  {Reply2(x[1], x[2], x[3], x[4], x[5]) :
     x \in Before \X LineSeqs(1, 1) \X Between \X LineSeqs(1, 2) \X After}

\* the provider delivers a whole reply as the only chunk of the stream
ReplyArrives(c) ==
  /\ c.chunks = 0
  /\ \E reply \in OneBlockReplies \cup TwoBlockReplies : StreamDelta(c, reply)

NextReplies ==
  \/ \E createThrows \in BOOLEAN : InitializeApp(createThrows)
  \/ sends = 0 /\ \E value \in InputTexts : HandleFormSubmit(value)
  \/ \E c \in calls : StreamEstablished(c)
  \/ \E c \in calls : ReplyArrives(c)
  \/ \E c \in calls : StreamEnds(c)

\* one turn whose reply carries one or two well-formed suggestion blocks
SpecReplies == Init /\ [][NextReplies]_vars

\* ------------------------------------------------------------------ properties
Contains(s, m) == \E i \in 1..Len(s) : IsAt(s, i, m)

\* a start marker with an end marker somewhere after it
HasClosedPair(s) ==
  \E i, j \in 1..Len(s) :
    /\ IsAt(s, i, StartMarker)
    /\ IsAt(s, j, EndMarker)
    /\ j >= i + Len(StartMarker)

\* the part of s after its last end marker, all of s when it has none
AfterLastEnd(s) ==
  LET ends == {k \in 1..Len(s) : IsAt(s, k, EndMarker)}
  IN IF ends = {} THEN s ELSE SubSeq(s, Max(ends) + Len(EndMarker), Len(s))

IsSuffix(t, s) == Len(t) <= Len(s) /\ SubSeq(s, Len(s) - Len(t) + 1, Len(s)) = t

\* what lies between the first start marker and the first end marker after it
FirstBlockContent(s) ==
  LET i == Min({k \in 1..Len(s) : IsAt(s, k, StartMarker)})
      j == Min({k \in (i + Len(StartMarker))..Len(s) : IsAt(s, k, EndMarker)})
  IN SubSeq(s, i + Len(StartMarker), j - 1)

\* no line of t holds two quotes
NoQuotedLine(t) ==
  ~\E p, q \in 1..Len(t) :
     /\ p < q
     /\ t[p] = Quote
     /\ t[q] = Quote
     /\ \A r \in p..q : t[r] # Newline

\* the suggestion block is missing or malformed
Malformed(s) == ~HasClosedPair(s) \/ NoQuotedLine(FirstBlockContent(s))

Bubble(id) == chatContainer[CHOOSE k \in 1..Len(chatContainer) : chatContainer[k].id = id]

ControlsEnabled == ~chatInputDisabled /\ ~sendButtonDisabled
ControlsDisabled == chatInputDisabled /\ sendButtonDisabled

\* no call is suspended and the last one returned with the given outcome
TurnDone(outcome) == calls = {} /\ lastCall.outcome = outcome

\* the chips on the page, in document order
ChipsShown ==
  IF Containers(chatContainer) = {} THEN <<>>
  ELSE chatContainer[Min(Containers(chatContainer))].chips

UserMessages == {chatContainer[k].text : k \in {i \in 1..Len(chatContainer) :
                                                  chatContainer[i].cls = "user-message"}}

\* C1: at most one call of sendMessageAndStreamResponse is between its
\* sendMessageStream call and its return; while one is, both controls are
\* disabled and the page holds no suggestion chip.
C1_AtMostOneSendInFlight ==
  /\ Cardinality(calls) <= 1
  /\ calls # {} => ControlsDisabled /\ Containers(chatContainer) = {}

\* a second send in flight, started from a chip of the first turn
C1_Witness ==
  /\ sends = 2
  /\ calls # {}
  /\ lastCall.outcome = "ok"
  /\ <<"a">> \in UserMessages

\* C2: while a reply is streaming, the bubble shows neither marker, whether or
\* not the block has been closed yet, and once a start marker has arrived
\* without its end marker the bubble shows only the text before it.
C2_NoMarkupWhileStreaming ==
  \A c \in calls :
    c.chunks > 0 =>
      /\ ~Contains(Bubble(c.el).text, StartMarker)
      /\ ~Contains(Bubble(c.el).text, EndMarker)
      /\ (Contains(c.bufferedText, StartMarker) /\ ~HasClosedPair(c.bufferedText)) =>
           Bubble(c.el).text =
             Trim(SubSeq(c.bufferedText, 1, IndexOf(c.bufferedText, StartMarker, 1) - 1))

\* C3: a reply with one block of N lines, one quoted string each, gives exactly
\* the N quoted strings as chips, in line order, repeated ones included.
C3_OneChipPerQuotedLine ==
  TurnDone("ok") =>
    \A pre \in Before, ls \in LineSeqs(0, MaxLines), post \in After :
      lastCall.bufferedText = Reply(pre, ls, post) =>
        /\ ChipsShown = Contents(ls)
        /\ Cardinality(Containers(chatContainer)) = IF ls = <<>> THEN 0 ELSE 1

\* four chips, two of them with the same text
C3_Witness ==
  /\ TurnDone("ok")
  /\ Len(ChipsShown) = 4
  /\ ChipsShown[1] = ChipsShown[2]
  /\ ChipsShown[3] = <<"b", " ", "c">>
  /\ \E pre \in Before, ls \in LineSeqs(4, 4), post \in After :
       lastCall.bufferedText = Reply(pre, ls, post)

\* C4: without a credential the page is disabled for good: both controls
\* disabled, the configuration error the only bubble, no session, no send.
C4_DisabledIsTerminal ==
  (started /\ apiKey = "") =>
    /\ chat = NULL
    /\ ControlsDisabled
    /\ Len(chatContainer) = 1
    /\ chatContainer[1].cls = "bot-message"
    /\ chatContainer[1].kind = "config-error"
    /\ sends = 0
    /\ calls = {}

C4_Witness == started /\ apiKey = "" /\ Len(chatContainer) = 1 /\ ControlsDisabled

C6_SendEventuallyReenables ==
  /\ []((chat # NULL /\ calls = {}) => ControlsEnabled)
  /\ (calls # {}) ~> (calls = {} /\ ControlsEnabled)

\* a send that could not be established has returned and the controls are enabled
C6_Witness ==
  /\ TurnDone("error")
  /\ lastCall.chunks = 0
  /\ sends = 1
  /\ ControlsEnabled

C8_MalformedBlockIsSilent ==
  (TurnDone("ok") /\ Malformed(lastCall.bufferedText)) =>
    /\ Containers(chatContainer) = {}
    /\ Bubble(lastCall.el).kind \in {"empty", "markdown"}
    /\ ControlsEnabled

\* the end marker came before the start marker, and a quoted line after both
C8_Witness ==
  /\ TurnDone("ok")
  /\ lastCall.bufferedText = EndMarker \o StartMarker \o <<Quote, "a", Quote, Newline>>
  /\ Containers(chatContainer) = {}

\* C9: of two well-formed blocks in one reply the first gives the chips, and
\* the text shown is the reply without either block.
C9_FirstBlockHonoured ==
  TurnDone("ok") =>
    \A x \in Before \X LineSeqs(1, 1) \X Between \X LineSeqs(1, 2) \X After :
      lastCall.bufferedText = Reply2(x[1], x[2], x[3], x[4], x[5]) =>
        /\ ChipsShown = Contents(x[2])
        /\ Cardinality(Containers(chatContainer)) = 1
        /\ Bubble(lastCall.el).text = Trim(x[1] \o x[3] \o x[5])

C9_Witness ==
  /\ TurnDone("ok")
  /\ ChipsShown = << <<"a">> >>
  /\ \E x \in Before \X LineSeqs(1, 1) \X Between \X LineSeqs(2, 2) \X After :
       /\ lastCall.bufferedText = Reply2(x[1], x[2], x[3], x[4], x[5])
       /\ Contents(x[4]) = << <<"b", " ", "c">>, <<>> >>

\* C10: the page holds at most one suggestions container; it is there only
\* when no send is in flight and the last turn ended normally, and it is the
\* last child, right after that turn's bubble.
C10_OneContainerOfLastTurn ==
  /\ Cardinality(Containers(chatContainer)) <= 1
  /\ \A k \in Containers(chatContainer) :
       /\ calls = {}
       /\ lastCall.outcome = "ok"
       /\ k = Len(chatContainer)
       /\ k > 1
       /\ chatContainer[k - 1].id = lastCall.el

\* the first turn left chips, the second one, started from a chip, failed
C10_Witness ==
  /\ sends = 2
  /\ TurnDone("error")
  /\ <<"a">> \in UserMessages
  /\ Containers(chatContainer) = {}

====
